---- MODULE Spec2Model ----
(***************************************************************************)
(* A model of GitHubImageHost (src/GitHubImageHost.py): one store bound to *)
(* a repository directory, a counting semaphore around its write requests, *)
(* and the remote contents API it talks to.                                *)
(*                                                                         *)
(* Strings are sequences of tokens: "/" is one token, so strip, lstrip and *)
(* path composition are computed as the code computes them.  An HTTP       *)
(* status is an integer; status 0 stands for "no response" (the transport  *)
(* raised).  A request is identified by the contents path the code hands   *)
(* to _api_url, which is the path the remote resolves.                     *)
(***************************************************************************)
EXTENDS Integers, Sequences, FiniteSets, TLC

----------------------------------------------------------------------------
(* Bounds of the model *)

NumThreads == 2
MaxConcurrency == 1
MaxCalls == 2
MaxBatch == 2
MaxClock == 1
MaxFaults == 1
MaxRawLen == 4

Threads == 1..NumThreads

----------------------------------------------------------------------------
(* String helpers *)

RECURSIVE LStrip(_)
LStrip(s) ==
    IF s # <<>> /\ Head(s) = "/" THEN LStrip(Tail(s)) ELSE s

RECURSIVE RStrip(_)
RStrip(s) ==
    IF s # <<>> /\ s[Len(s)] = "/" THEN RStrip(SubSeq(s, 1, Len(s) - 1)) ELSE s

Strip(s) == RStrip(LStrip(s))

IsPrefix(p, s) == Len(p) <= Len(s) /\ SubSeq(s, 1, Len(p)) = p

(* pathlib: the final path component, its stem and its suffix *)
RECURSIVE PathName(_)
PathName(p) ==
    IF \E i \in 1..Len(p) : p[i] = "/" THEN PathName(Tail(p)) ELSE p

Suffixes == {".png"}

PathSuffix(n) ==
    IF Len(n) > 1 /\ n[Len(n)] \in Suffixes THEN <<n[Len(n)]>> ELSE <<>>

PathStem(n) == SubSeq(n, 1, Len(n) - Len(PathSuffix(n)))

(* time.strftime("%Y%m%d-%H%M%S", time.gmtime()) at second c *)
StrfTime(c) == <<ToString(c)>>

(* f"{p.stem}-{ts}{p.suffix}" *)
Renamed(n, c) == PathStem(n) \o <<"-">> \o StrfTime(c) \o PathSuffix(n)

----------------------------------------------------------------------------
(* Configuration of the store *)

NormalizeSubdir(subdir) ==
    IF subdir # <<>> THEN Strip(subdir) \o <<"/">> ELSE <<>>

RawSubdirs == {<<>>, <<"/", "i", "/">>}

custom_cdn == <<>>

Owner == "o"
Repo == "r"
Branch == "main"

(* Local files: path |-> bytes.  LMissing is not a file. *)
LA == <<"l", "/", "a", ".png">>
LB == <<"m", "/", "a", ".png">>
LMissing == <<"l", "/", "z", ".png">>

LocalFS == (LA :> "x") @@ (LB :> "y")

IsFile(p) == p \in DOMAIN LocalFS

LocalPaths == {LA, LMissing}
BatchPaths == {LA, LB}

B64Encode(bytes) == <<"b64", bytes>>
B64Decode(c) == c[2]

NoSha == <<>>
Sha(bytes) == <<"sha", bytes>>

GitKeep == <<".gitkeep">>

----------------------------------------------------------------------------
(* URL construction *)

CdnUrlOf(sub, filename) ==
    LET rel == LStrip(sub \o filename)
    IN  IF custom_cdn # <<>>
        THEN RStrip(custom_cdn) \o <<"/">> \o rel
        ELSE <<"https://cdn.jsdelivr.net/gh/", Owner, "/", Repo, "@", Branch, "/">>
                 \o rel

----------------------------------------------------------------------------
(* The remote contents API.  The tree maps the path of every file to its   *)
(* bytes; a directory is visible exactly when some file lies below it.     *)

Ok(status) == status >= 200 /\ status < 400

HasSep(s) == \E i \in 1..Len(s) : s[i] = "/"

RECURSIVE FirstComponent(_)
FirstComponent(s) ==
    IF s = <<>> \/ Head(s) = "/" THEN <<>> ELSE <<Head(s)>> \o FirstComponent(Tail(s))

DirPrefix(d) == IF d = <<>> THEN <<>> ELSE d \o <<"/">>

EntryOf(tr, d, p) ==
    LET rest == SubSeq(p, Len(DirPrefix(d)) + 1, Len(p))
    IN  IF HasSep(rest)
        THEN [type |-> "dir", name |-> FirstComponent(rest),
              path |-> DirPrefix(d) \o FirstComponent(rest), sha |-> Sha("tree")]
        ELSE [type |-> "file", name |-> rest, path |-> p, sha |-> Sha(tr[p])]

Entries(tr, d) ==
    {EntryOf(tr, d, p) : p \in {q \in DOMAIN tr : IsPrefix(DirPrefix(d), q)}}

RECURSIVE SetToSeq(_)
SetToSeq(S) ==
    IF S = {} THEN <<>>
    ELSE LET x == CHOOSE x \in S : TRUE IN <<x>> \o SetToSeq(S \ {x})

Response(status, tr, sha, items) ==
    [status |-> status, tree |-> tr, sha |-> sha, items |-> items]

RemoteGet(tr, path) ==
    LET q == Strip(path)
    IN  IF q \in DOMAIN tr THEN Response(200, tr, Sha(tr[q]), <<>>)
        ELSE IF Entries(tr, q) # {}
             THEN Response(200, tr, NoSha, SetToSeq(Entries(tr, q)))
             ELSE Response(404, tr, NoSha, <<>>)

Without(tr, q) == [p \in DOMAIN tr \ {q} |-> tr[p]]

RemotePut(tr, path, content, sha) ==
    LET q == Strip(path)
    IN  IF sha = NoSha
        THEN IF q \in DOMAIN tr
             THEN Response(422, tr, NoSha, <<>>)
             ELSE Response(201, (q :> B64Decode(content)) @@ tr, NoSha, <<>>)
        ELSE IF q \notin DOMAIN tr \/ Sha(tr[q]) # sha
             THEN Response(409, tr, NoSha, <<>>)
             ELSE Response(200, (q :> B64Decode(content)) @@ Without(tr, q),
                           NoSha, <<>>)

RemoteDelete(tr, path, sha) ==
    LET q == Strip(path)
    IN  IF q \notin DOMAIN tr THEN Response(404, tr, NoSha, <<>>)
        ELSE IF Sha(tr[q]) # sha THEN Response(409, tr, NoSha, <<>>)
        ELSE Response(200, Without(tr, q), NoSha, <<>>)

(* What the client sees of a request: the remote's answer, a server-side  *)
(* failure, no answer at all, or no answer although the remote acted.     *)
Outcomes == {"normal", "fail", "exc", "lost"}
ReadOutcomes == {"normal", "fail", "exc"}

Reply(o, tr, r) ==
    CASE o = "normal" -> r
      [] o = "fail"   -> Response(500, tr, NoSha, <<>>)
      [] o = "exc"    -> Response(0, tr, NoSha, <<>>)
      [] o = "lost"   -> Response(0, r.tree, NoSha, <<>>)

----------------------------------------------------------------------------
(* State *)

VARIABLES
    arg,              \* the subdir argument the constructor was given
    subdir,           \* self.subdir, normalised by the constructor
    max_concurrency,  \* the permit count the gate was built with
    sema,             \* self._sema: the permits available now
    tree,             \* the remote repository: file path |-> bytes
    clock,            \* the current UTC second
    th,               \* per thread: where its call stands, and its locals
    calls,            \* calls begun so far
    faults            \* requests that failed for reasons of the network or server

vars == <<arg, subdir, max_concurrency, sema, tree, clock, th, calls, faults>>

FileA == <<"a", ".png">>
FileB == <<"b", ".png">>
Nested == <<"d", "/", "k">>
FileNames == {FileA, FileB}

InitTrees(sub) ==
    { <<>>,
      (sub \o FileA :> "o") @@ (sub \o FileB :> "o") @@ (sub \o Nested :> "o") }

(* The frame of a batch helper: files are its elements (for update_many   *)
(* the keys of the dict, names their values), i the element at work.       *)
NoBatch == [kind |-> "none", files |-> <<>>, names |-> <<>>, i |-> 0, out |-> <<>>]
NoRet == [kind |-> "none", val |-> <<>>]
Pending == -1

IdleThread ==
    [pc |-> "idle", op |-> "none", file |-> <<>>, name |-> <<>>, sha |-> NoSha,
     keep |-> {}, target_dir |-> <<>>, listing |-> <<>>, items |-> <<>>,
     deleted |-> 0,
     batch |-> NoBatch, ret |-> NoRet, log |-> <<>>, rets |-> <<>>]

Init ==
    /\ arg \in RawSubdirs
    /\ subdir = NormalizeSubdir(arg)
    /\ max_concurrency \in 1..MaxConcurrency
    /\ sema = max_concurrency
    /\ tree \in InitTrees(subdir)
    /\ clock = 0
    /\ th = [t \in Threads |-> IdleThread]
    /\ calls = 0
    /\ faults = 0

----------------------------------------------------------------------------
(* Steps of a call, as functions of the thread's record *)

CdnUrl(filename) == CdnUrlOf(subdir, filename)

Logged(s, m, path, sha) ==
    [s EXCEPT !.log = Append(@, [m |-> m, path |-> path, sha |-> sha,
                                  status |-> Pending])]

Answered(s, status) == [s EXCEPT !.log[Len(s.log)].status = status]

(* An exception leaves the call, and a batch helper around it *)
RaiseSwallowedByBatch(s, exc) ==
    IF s.batch.kind = "none"
    THEN [s EXCEPT !.pc = "idle", !.ret = [kind |-> "raise", val |-> exc]]
    ELSE [s EXCEPT !.pc = "idle", !.ret = [kind |-> "map", val |-> s.batch.out],
                   !.rets = Append(@, [kind |-> "raise", val |-> exc])]

Raise(s, exc) ==
    [s EXCEPT !.pc = "idle", !.ret = [kind |-> "raise", val |-> exc],
              !.rets = IF s.batch.kind = "none" THEN @
                       ELSE Append(@, [kind |-> "raise", val |-> exc])]

(* The statements that follow self._ensure_dir() up to the next request *)
AfterEnsure(s) ==
    IF s.op = "upload"
    THEN IF ~IsFile(s.file)
         THEN Raise(s, "FileNotFoundError")
         ELSE [s EXCEPT !.name = PathName(s.file), !.pc = "u_acq"]
    ELSE [s EXCEPT !.pc = "up_get"]

StartEnsure(s) ==
    IF subdir = <<>> THEN AfterEnsure(s) ELSE [s EXCEPT !.pc = "ens_get"]

StartUpload(s, f) ==
    StartEnsure([s EXCEPT !.op = "upload", !.file = f, !.name = <<>>,
                          !.log = <<>>])

StartDelete(s, filename) ==
    [s EXCEPT !.op = "delete", !.name = filename, !.sha = NoSha, !.log = <<>>,
              !.pc = "d_get"]

StartUpdate(s, f, filename) ==
    StartEnsure([s EXCEPT !.op = "update", !.file = f, !.sha = NoSha,
                          !.name = IF filename # <<>> THEN filename
                                   ELSE PathName(f),
                          !.log = <<>>])

(* The call a batch helper makes for its element i *)
StartItem(s) ==
    CASE s.batch.kind = "upload_many" -> StartUpload(s, s.batch.files[s.batch.i])
      [] s.batch.kind = "delete_many" -> StartDelete(s, s.batch.files[s.batch.i])
      [] s.batch.kind = "update_many" ->
             StartUpdate(s, s.batch.files[s.batch.i], s.batch.names[s.batch.i])

(* What a batch helper returns once its last element is done *)
BatchResult(kind, out) ==
    IF kind = "delete_many" THEN [kind |-> "None", val |-> <<>>]
    ELSE [kind |-> "map", val |-> out]

(* {f: self.upload(f) for f in files}: one more item of the dict *)
StoreResultByName(out, f, val) == (PathName(f) :> val) @@ out

StoreResult(out, f, val) == (f :> val) @@ out

(* A value returned by upload, update, delete or clear_dir; inside a      *)
(* batch helper the comprehension stores it (delete_many drops it) and    *)
(* the helper goes on with its next element.                              *)
Return(s, r) ==
    IF s.batch.kind = "none"
    THEN [s EXCEPT !.pc = "idle", !.ret = r]
    ELSE LET f == s.batch.files[s.batch.i]
             out == IF s.batch.kind = "delete_many" THEN s.batch.out
                    ELSE StoreResult(s.batch.out, f, r.val)
             s1 == [s EXCEPT !.rets = Append(@, r), !.batch.out = out]
         IN  IF s.batch.i = Len(s.batch.files)
             THEN [s1 EXCEPT !.pc = "idle", !.ret = BatchResult(s.batch.kind, out)]
             ELSE StartItem([s1 EXCEPT !.batch.i = @ + 1])

(* "with self._sema": leaving the block gives the permit back *)
ExitGateOnSuccess(sem, status) == IF status >= 200 /\ status < 400 THEN sem + 1 ELSE sem

ExitGateNever(sem, status) == sem

ExitGate(sem, status) == sem + 1

(* "if not resp.ok" after the create of upload *)
UploadFailedUnlessConflict(status) == ~Ok(status) /\ status # 422

UploadFailed(status) == ~Ok(status)

(* "if not resp.ok" after the write of delete, update and clear_dir *)
WriteFailedOnServerError(status) == status >= 500

WriteFailedUnlessConflict(status) == ~Ok(status) /\ status # 409

WriteFailed(status) == ~Ok(status)

(* "if r.status_code == 404" of delete *)
IsAbsentNever(status) == FALSE

IsAbsent(status) == status = 404

Set(t, s) == th' = [th EXCEPT ![t] = s]

(* A request goes wrong for reasons outside the program at most MaxFaults *)
(* times in a behaviour.                                                  *)
Fault(o) ==
    /\ o = "normal" \/ faults < MaxFaults
    /\ faults' = IF o = "normal" THEN faults ELSE faults + 1

----------------------------------------------------------------------------
(* _ensure_dir *)
(* In the lookups the response is bound by \E over a one-element set, so  *)
(* that it is computed once per step.                                     *)

(* "if r.ok: return" *)
DirVisibleNever(status) == FALSE

DirVisible(status) == Ok(status)

(* self.session.put(...) of .gitkeep: its response is dropped *)
KeepFailedIfRefused(status) == ~Ok(status)

KeepFailed(status) == FALSE

EnsureGet(t) ==
    /\ th[t].pc = "ens_get"
    /\ \E o \in ReadOutcomes :
         /\ Fault(o)
         /\ \E r \in {Reply(o, tree, RemoteGet(tree, subdir))} :
            LET s == Answered(Logged(th[t], "GET", subdir, NoSha), r.status)
            IN  Set(t, IF r.status = 0 THEN Raise(s, "TransportError")
                       ELSE IF DirVisible(r.status) THEN AfterEnsure(s)
                       ELSE Logged([s EXCEPT !.pc = "ens_put"],
                                   "PUT", subdir \o GitKeep, NoSha))
    /\ UNCHANGED <<arg, subdir, max_concurrency, sema, tree, clock, calls>>

EnsurePutResp(t) ==
    /\ th[t].pc = "ens_put"
    /\ \E o \in Outcomes :
         /\ Fault(o)
         /\ LET r == Reply(o, tree,
                           RemotePut(tree, subdir \o GitKeep, B64Encode(""), NoSha))
                s == Answered(th[t], r.status)
            IN  /\ tree' = r.tree
                /\ Set(t, IF r.status = 0 THEN Raise(s, "TransportError")
                          ELSE IF KeepFailed(r.status) THEN Raise(s, "RuntimeError")
                          ELSE AfterEnsure(s))
    /\ UNCHANGED <<arg, subdir, max_concurrency, sema, clock, calls>>

----------------------------------------------------------------------------
(* upload, upload_many *)

BeginUpload(t, f) ==
    /\ th[t].pc = "idle"
    /\ calls < MaxCalls
    /\ calls' = calls + 1
    /\ Set(t, StartUpload(IdleThread, f))
    /\ UNCHANGED <<arg, subdir, max_concurrency, sema, tree, clock, faults>>

BeginUploadMany(t, files) ==
    /\ th[t].pc = "idle"
    /\ calls < MaxCalls
    /\ calls' = calls + 1
    /\ Set(t, IF files = <<>>
              THEN [IdleThread EXCEPT !.batch.kind = "upload_many",
                                      !.ret = [kind |-> "map", val |-> <<>>]]
              ELSE StartUpload([IdleThread EXCEPT
                                  !.batch = [kind |-> "upload_many",
                                             files |-> files, names |-> <<>>,
                                             i |-> 1, out |-> <<>>]],
                               files[1]))
    /\ UNCHANGED <<arg, subdir, max_concurrency, sema, tree, clock, faults>>

UploadResultOriginal(s) == [kind |-> "url", val |-> CdnUrl(PathName(s.file))]

UploadResult(s) == [kind |-> "url", val |-> CdnUrl(s.name)]

UploadAcquire(t) ==
    /\ th[t].pc = "u_acq"
    /\ sema > 0
    /\ sema' = sema - 1
    /\ Set(t, Logged([th[t] EXCEPT !.pc = "put1"],
                     "PUT", subdir \o th[t].name, NoSha))
    /\ UNCHANGED <<arg, subdir, max_concurrency, tree, clock, calls, faults>>

UploadPut1Resp(t) ==
    /\ th[t].pc = "put1"
    /\ \E o \in Outcomes :
         /\ Fault(o)
         /\ LET r == Reply(o, tree,
                           RemotePut(tree, subdir \o th[t].name,
                                     B64Encode(LocalFS[th[t].file]), NoSha))
                s == Answered(th[t], r.status)
                filename == Renamed(PathName(s.file), clock)
            IN  /\ tree' = r.tree
                /\ IF r.status = 422
                   THEN /\ Set(t, Logged([s EXCEPT !.pc = "put2", !.name = filename],
                                         "PUT", subdir \o filename, NoSha))
                        /\ sema' = sema
                   ELSE /\ Set(t, IF r.status = 0 THEN Raise(s, "TransportError")
                                  ELSE IF UploadFailed(r.status)
                                       THEN Raise(s, "RuntimeError")
                                  ELSE Return(s, UploadResult(s)))
                        /\ sema' = ExitGate(sema, r.status)
    /\ UNCHANGED <<arg, subdir, max_concurrency, clock, calls>>

UploadPut2Resp(t) ==
    /\ th[t].pc = "put2"
    /\ \E o \in Outcomes :
         /\ Fault(o)
         /\ LET r == Reply(o, tree,
                           RemotePut(tree, subdir \o th[t].name,
                                     B64Encode(LocalFS[th[t].file]), NoSha))
                s == Answered(th[t], r.status)
            IN  /\ tree' = r.tree
                /\ Set(t, IF r.status = 0 THEN Raise(s, "TransportError")
                          ELSE IF UploadFailed(r.status) THEN Raise(s, "RuntimeError")
                          ELSE Return(s, UploadResult(s)))
                /\ sema' = ExitGate(sema, r.status)
    /\ UNCHANGED <<arg, subdir, max_concurrency, clock, calls>>

----------------------------------------------------------------------------
(* delete *)

BeginDelete(t, filename) ==
    /\ th[t].pc = "idle"
    /\ calls < MaxCalls
    /\ calls' = calls + 1
    /\ Set(t, StartDelete(IdleThread, filename))
    /\ UNCHANGED <<arg, subdir, max_concurrency, sema, tree, clock, faults>>

DeleteGet(t) ==
    /\ th[t].pc = "d_get"
    /\ \E o \in ReadOutcomes, e \in {"KeyError", "JSONDecodeError"} :
         /\ Fault(o)
         /\ \E r \in {Reply(o, tree, RemoteGet(tree, subdir \o th[t].name))} :
            LET s == Answered(Logged(th[t], "GET", subdir \o th[t].name, NoSha),
                              r.status)
            IN  Set(t, IF r.status = 0 THEN Raise(s, "TransportError")
                       ELSE IF IsAbsent(r.status)
                            THEN Return(s, [kind |-> "None", val |-> <<>>])
                       ELSE IF ~Ok(r.status) THEN Raise(s, e)
                       ELSE [s EXCEPT !.sha = r.sha, !.pc = "d_acq"])
    /\ UNCHANGED <<arg, subdir, max_concurrency, sema, tree, clock, calls>>

DeleteAcquire(t) ==
    /\ th[t].pc = "d_acq"
    /\ sema > 0
    /\ sema' = sema - 1
    /\ Set(t, Logged([th[t] EXCEPT !.pc = "del"],
                     "DELETE", subdir \o th[t].name, th[t].sha))
    /\ UNCHANGED <<arg, subdir, max_concurrency, tree, clock, calls, faults>>

DeleteResp(t) ==
    /\ th[t].pc = "del"
    /\ \E o \in Outcomes :
         /\ Fault(o)
         /\ LET r == Reply(o, tree,
                           RemoteDelete(tree, subdir \o th[t].name, th[t].sha))
                s == Answered(th[t], r.status)
            IN  /\ tree' = r.tree
                /\ sema' = ExitGate(sema, r.status)
                /\ Set(t, IF r.status = 0 THEN Raise(s, "TransportError")
                          ELSE IF WriteFailed(r.status) THEN Raise(s, "RuntimeError")
                          ELSE Return(s, [kind |-> "None", val |-> <<>>]))
    /\ UNCHANGED <<arg, subdir, max_concurrency, clock, calls>>

(* for f in filenames: self.delete(f) *)
BeginDeleteMany(t, filenames) ==
    /\ th[t].pc = "idle"
    /\ calls < MaxCalls
    /\ calls' = calls + 1
    /\ Set(t, IF filenames = <<>>
              THEN [IdleThread EXCEPT !.batch.kind = "delete_many",
                                      !.ret = BatchResult("delete_many", <<>>)]
              ELSE StartItem([IdleThread EXCEPT
                                !.batch = [kind |-> "delete_many",
                                           files |-> filenames, names |-> <<>>,
                                           i |-> 1, out |-> <<>>]]))
    /\ UNCHANGED <<arg, subdir, max_concurrency, sema, tree, clock, faults>>

----------------------------------------------------------------------------
(* update *)

BeginUpdate(t, f, filename) ==
    /\ th[t].pc = "idle"
    /\ calls < MaxCalls
    /\ calls' = calls + 1
    /\ Set(t, StartUpdate(IdleThread, f, filename))
    /\ UNCHANGED <<arg, subdir, max_concurrency, sema, tree, clock, faults>>

UpdateGet(t) ==
    /\ th[t].pc = "up_get"
    /\ \E o \in ReadOutcomes :
         /\ Fault(o)
         /\ \E r \in {Reply(o, tree, RemoteGet(tree, subdir \o th[t].name))} :
            LET s == Answered(Logged(th[t], "GET", subdir \o th[t].name, NoSha),
                              r.status)
            IN  Set(t, IF r.status = 0 THEN Raise(s, "TransportError")
                       ELSE IF ~Ok(r.status) THEN Raise(s, "FileNotFoundError")
                       ELSE IF ~IsFile(s.file) THEN Raise(s, "FileNotFoundError")
                       ELSE [s EXCEPT !.sha = r.sha, !.pc = "up_acq"])
    /\ UNCHANGED <<arg, subdir, max_concurrency, sema, tree, clock, calls>>

UpdateAcquire(t) ==
    /\ th[t].pc = "up_acq"
    /\ sema > 0
    /\ sema' = sema - 1
    /\ Set(t, Logged([th[t] EXCEPT !.pc = "upd"],
                     "PUT", subdir \o th[t].name, th[t].sha))
    /\ UNCHANGED <<arg, subdir, max_concurrency, tree, clock, calls, faults>>

UpdateResp(t) ==
    /\ th[t].pc = "upd"
    /\ \E o \in Outcomes :
         /\ Fault(o)
         /\ LET r == Reply(o, tree,
                           RemotePut(tree, subdir \o th[t].name,
                                     B64Encode(LocalFS[th[t].file]), th[t].sha))
                s == Answered(th[t], r.status)
            IN  /\ tree' = r.tree
                /\ sema' = ExitGate(sema, r.status)
                /\ Set(t, IF r.status = 0 THEN Raise(s, "TransportError")
                          ELSE IF WriteFailed(r.status) THEN Raise(s, "RuntimeError")
                          ELSE Return(s, [kind |-> "url", val |-> CdnUrl(s.name)]))
    /\ UNCHANGED <<arg, subdir, max_concurrency, clock, calls>>

(* {src: self.update(src, dst) for src, dst in files.items()}: the dict    *)
(* is given by its keys and its values, in the order of its items.        *)
BeginUpdateMany(t, srcs, dsts) ==
    /\ th[t].pc = "idle"
    /\ calls < MaxCalls
    /\ calls' = calls + 1
    /\ Set(t, IF srcs = <<>>
              THEN [IdleThread EXCEPT !.batch.kind = "update_many",
                                      !.ret = BatchResult("update_many", <<>>)]
              ELSE StartItem([IdleThread EXCEPT
                                !.batch = [kind |-> "update_many",
                                           files |-> srcs, names |-> dsts,
                                           i |-> 1, out |-> <<>>]]))
    /\ UNCHANGED <<arg, subdir, max_concurrency, sema, tree, clock, faults>>

----------------------------------------------------------------------------
(* clear_dir *)

KeepSets == {{}, {FileA}}
DirPaths == {<<>>, <<"d">>}

DeletableIgnoringKeep(item, keep) == item.type = "file"

Deletable(item, keep) == item.type = "file" /\ item.name \notin keep

(* the two "continue" tests of the loop: drop the entries it skips *)
RECURSIVE SkipKept(_, _)
SkipKept(items, keep) ==
    IF items = <<>> \/ Deletable(Head(items), keep) THEN items
    ELSE SkipKept(Tail(items), keep)

(* the loop, from the entries still to visit up to its next request *)
Loop(s, items) ==
    LET rest == SkipKept(items, s.keep)
    IN  IF rest = <<>>
        THEN Return([s EXCEPT !.items = <<>>],
                    [kind |-> "count", val |-> s.deleted])
        ELSE [s EXCEPT !.items = rest, !.pc = "c_acq"]

BeginClear(t, keep, dir_path) ==
    /\ th[t].pc = "idle"
    /\ calls < MaxCalls
    /\ calls' = calls + 1
    /\ Set(t, [IdleThread EXCEPT
                 !.op = "clear_dir", !.keep = keep, !.pc = "c_list",
                 !.target_dir = IF dir_path # <<>>
                                THEN Strip(dir_path) \o <<"/">> ELSE subdir])
    /\ UNCHANGED <<arg, subdir, max_concurrency, sema, tree, clock, faults>>

ClearList(t) ==
    /\ th[t].pc = "c_list"
    /\ \E o \in ReadOutcomes :
         /\ Fault(o)
         /\ \E r \in {Reply(o, tree, RemoteGet(tree, th[t].target_dir))} :
            LET s == Answered(Logged(th[t], "GET", th[t].target_dir, NoSha),
                              r.status)
            IN  Set(t, IF r.status = 0 THEN Raise(s, "TransportError")
                       ELSE IF ~Ok(r.status) THEN Raise(s, "RuntimeError")
                       ELSE Loop([s EXCEPT !.listing = r.items], r.items))
    /\ UNCHANGED <<arg, subdir, max_concurrency, sema, tree, clock, calls>>

ClearAcquire(t) ==
    /\ th[t].pc = "c_acq"
    /\ sema > 0
    /\ sema' = sema - 1
    /\ Set(t, Logged([th[t] EXCEPT !.pc = "cdel"], "DELETE",
                     Head(th[t].items).path, Head(th[t].items).sha))
    /\ UNCHANGED <<arg, subdir, max_concurrency, tree, clock, calls, faults>>

ClearResp(t) ==
    /\ th[t].pc = "cdel"
    /\ \E o \in Outcomes :
         /\ Fault(o)
         /\ LET item == Head(th[t].items)
                r == Reply(o, tree, RemoteDelete(tree, item.path, item.sha))
                s == Answered(th[t], r.status)
            IN  /\ tree' = r.tree
                /\ sema' = ExitGate(sema, r.status)
                /\ Set(t, IF r.status = 0 THEN Raise(s, "TransportError")
                          ELSE IF WriteFailed(r.status) THEN Raise(s, "RuntimeError")
                          ELSE Loop([s EXCEPT !.deleted = @ + 1], Tail(s.items)))
    /\ UNCHANGED <<arg, subdir, max_concurrency, clock, calls>>

----------------------------------------------------------------------------
(* Time *)

(* The clock is read in one place, when upload renames after a 422; a    *)
(* second that passes at any other moment changes nothing, so the model  *)
(* lets time pass only while a first create is in flight.                *)
Tick ==
    /\ clock < MaxClock
    /\ \E t \in Threads : th[t].pc = "put1"
    /\ clock' = clock + 1
    /\ UNCHANGED <<arg, subdir, max_concurrency, sema, tree, th, calls, faults>>

----------------------------------------------------------------------------

Batches == UNION {[1..n -> BatchPaths] : n \in 0..MaxBatch}

(* The steps of one calling thread: the single calls and upload_many *)
Call(t) ==
    \/ \E f \in LocalPaths : BeginUpload(t, f)
    \/ \E files \in Batches : BeginUploadMany(t, files)
    \/ \E f \in LocalPaths, n \in {<<>>, FileB} : BeginUpdate(t, f, n)
    \/ \E n \in FileNames : BeginDelete(t, n)
    \/ \E k \in KeepSets, d \in DirPaths : BeginClear(t, k, d)
    \/ EnsureGet(t)
    \/ EnsurePutResp(t)
    \/ UploadAcquire(t)
    \/ UploadPut1Resp(t)
    \/ UploadPut2Resp(t)
    \/ DeleteGet(t)
    \/ DeleteAcquire(t)
    \/ DeleteResp(t)
    \/ UpdateGet(t)
    \/ UpdateAcquire(t)
    \/ UpdateResp(t)
    \/ ClearList(t)
    \/ ClearAcquire(t)
    \/ ClearResp(t)

Next ==
    \/ \E t \in Threads : Call(t)
    \/ Tick

(* The store used from one thread only: its calls follow one another *)
SeqNext ==
    \/ Call(1)
    \/ Tick

Spec == Init /\ [][Next]_vars

SeqSpec == Init /\ [][SeqNext]_vars

(* The store used through its batch helpers, from one thread and within  *)
(* one second of the clock                                                *)
NameBatches == UNION {[1..n -> FileNames] : n \in 0..MaxBatch}

(* the keys of a dict are pairwise distinct *)
KeyBatches ==
    {b \in UNION {[1..n -> LocalPaths] : n \in 0..MaxBatch} :
        \A i, j \in 1..Len(b) : i # j => b[i] # b[j]}

BatchCall(t) ==
    \/ \E files \in Batches : BeginUploadMany(t, files)
    \/ \E filenames \in NameBatches : BeginDeleteMany(t, filenames)
    \/ \E srcs \in KeyBatches :
          \E dsts \in [1..Len(srcs) -> {<<>>, FileB}] : BeginUpdateMany(t, srcs, dsts)
    \/ EnsureGet(t)
    \/ EnsurePutResp(t)
    \/ UploadAcquire(t)
    \/ UploadPut1Resp(t)
    \/ UploadPut2Resp(t)
    \/ DeleteGet(t)
    \/ DeleteAcquire(t)
    \/ DeleteResp(t)
    \/ UpdateGet(t)
    \/ UpdateAcquire(t)
    \/ UpdateResp(t)

BatchNext == BatchCall(1)

BatchSpec == Init /\ [][BatchNext]_vars

(* The store used for delete and update only, from every thread *)
WriteCall(t) ==
    \/ \E f \in LocalPaths, n \in {<<>>, FileB} : BeginUpdate(t, f, n)
    \/ \E n \in FileNames : BeginDelete(t, n)
    \/ EnsureGet(t)
    \/ EnsurePutResp(t)
    \/ DeleteGet(t)
    \/ DeleteAcquire(t)
    \/ DeleteResp(t)
    \/ UpdateGet(t)
    \/ UpdateAcquire(t)
    \/ UpdateResp(t)

WriteNext == \E t \in Threads : WriteCall(t)

WriteSpec == Init /\ [][WriteNext]_vars

(* One thread runs clear_dir while the others run delete and update *)
ClearCall(t) ==
    \/ \E k \in KeepSets, d \in DirPaths : BeginClear(t, k, d)
    \/ ClearList(t)
    \/ ClearAcquire(t)
    \/ ClearResp(t)

ClearNext ==
    \/ ClearCall(1)
    \/ \E t \in Threads \ {1} : WriteCall(t)

ClearSpec == Init /\ [][ClearNext]_vars

(* The single calls from every thread, with the scheduling the code       *)
(* relies on: a request sent is answered (or its transport raises), and a *)
(* thread that can take its next step, a permit included, takes it.       *)
Begin(t) ==
    \/ \E f \in LocalPaths : BeginUpload(t, f)
    \/ \E f \in LocalPaths, n \in {<<>>, FileB} : BeginUpdate(t, f, n)
    \/ \E n \in FileNames : BeginDelete(t, n)
    \/ \E k \in KeepSets, d \in DirPaths : BeginClear(t, k, d)

(* the lookups and listings: session.get outside "with self._sema" *)
ReadStep(t) ==
    \/ EnsureGet(t)
    \/ DeleteGet(t)
    \/ UpdateGet(t)
    \/ ClearList(t)

(* "with self._sema:" entered *)
AcquireStep(t) ==
    \/ UploadAcquire(t)
    \/ DeleteAcquire(t)
    \/ UpdateAcquire(t)
    \/ ClearAcquire(t)

(* a write answered *)
WriteStep(t) ==
    \/ EnsurePutResp(t)
    \/ UploadPut1Resp(t)
    \/ UploadPut2Resp(t)
    \/ DeleteResp(t)
    \/ UpdateResp(t)
    \/ ClearResp(t)

Step(t) == ReadStep(t) \/ AcquireStep(t) \/ WriteStep(t)

LiveNext ==
    \/ \E t \in Threads : Begin(t) \/ Step(t)
    \/ Tick

LiveSpec == Init /\ [][LiveNext]_vars /\ \A t \in Threads : WF_vars(Step(t))

(* The constructor alone, over every subdir argument of up to MaxRawLen   *)
(* tokens; a store is built, and later another one in its place.          *)
RawTokens == {"/", "i", "g"}

RawArgs == UNION {[1..n -> RawTokens] : n \in 0..MaxRawLen}

CtorInit ==
    /\ arg \in RawArgs
    /\ subdir = NormalizeSubdir(arg)
    /\ max_concurrency \in 1..MaxConcurrency
    /\ sema = max_concurrency
    /\ tree = <<>>
    /\ clock = 0
    /\ th = [t \in Threads |-> IdleThread]
    /\ calls = 0
    /\ faults = 0

Construct(raw) ==
    /\ \A t \in Threads : th[t].pc = "idle"
    /\ arg' = raw
    /\ subdir' = NormalizeSubdir(raw)
    /\ max_concurrency' \in 1..MaxConcurrency
    /\ sema' = max_concurrency'
    /\ th' = [t \in Threads |-> IdleThread]
    /\ calls' = 0
    /\ UNCHANGED <<tree, clock, faults>>

CtorNext == \E raw \in RawArgs : Construct(raw)

CtorSpec == CtorInit /\ [][CtorNext]_vars

----------------------------------------------------------------------------
(* Observations on a thread's call *)

WriteInFlight(t) == th[t].pc \in {"ens_put", "put1", "put2", "del", "upd", "cdel"}
HoldsPermit(t) == th[t].pc \in {"put1", "put2", "del", "upd", "cdel"}

Finished(t, op) ==
    th[t].op = op /\ th[t].batch.kind = "none" /\ th[t].pc = "idle"

Raised(t, exc) == th[t].ret.kind = "raise" /\ th[t].ret.val = exc

LogIdx(t) == 1..Len(th[t].log)
Entry(t, i) == th[t].log[i]
IsWrite(e) == e.m \in {"PUT", "DELETE"}
Refused(e) == e.status # Pending /\ e.status # 0 /\ ~Ok(e.status)
Target(t) == subdir \o th[t].name

(* the requests of the _ensure_dir pre-step of upload and update *)
IsEnsure(t, i) ==
    /\ th[t].op \in {"upload", "update"}
    /\ \/ i = 1 /\ Entry(t, i).m = "GET" /\ Entry(t, i).path = subdir
       \/ i = 2 /\ Entry(t, i).m = "PUT" /\ Entry(t, i).path = subdir \o GitKeep

FilePuts(t) == {i \in LogIdx(t) : Entry(t, i).m = "PUT" /\ ~IsEnsure(t, i)}

----------------------------------------------------------------------------
(* C1: every write request (create, the .gitkeep create included, update, *)
(* delete) is in flight only while its caller holds a permit, so at most  *)
(* max_concurrency write requests are in flight at any instant.           *)
C1_WritesHoldPermit ==
    /\ \A t \in Threads : WriteInFlight(t) => HoldsPermit(t)
    /\ Cardinality({t \in Threads : WriteInFlight(t)}) <= max_concurrency

(* C2: the permit is given back however the guarded request ends: the     *)
(* permits available are max_concurrency less the guarded requests in     *)
(* flight, so all of them when no write request is in flight.             *)
C2_PermitsReleased ==
    /\ sema = max_concurrency - Cardinality({t \in Threads : HoldsPermit(t)})
    /\ (\A t \in Threads : ~WriteInFlight(t)) => sema = max_concurrency

C2_Witness ==
    \E t \in Threads :
        /\ th[t].pc = "idle"
        /\ th[t].log # <<>>
        /\ IsWrite(Entry(t, Len(th[t].log)))
        /\ Entry(t, Len(th[t].log)).path # subdir \o GitKeep
        /\ ~Ok(Entry(t, Len(th[t].log)).status)
        /\ th[t].ret.kind = "raise"
        /\ \A u \in Threads : ~WriteInFlight(u)
        /\ sema = max_concurrency

(* C3: update on a target that does not exist remotely raises             *)
(* FileNotFoundError and has issued no write request.                     *)
C3_UpdateMissingWritesNothing ==
    \A t \in Threads :
        ( /\ Finished(t, "update")
          /\ \E i \in LogIdx(t) : /\ Entry(t, i).m = "GET"
                                  /\ Entry(t, i).path = Target(t)
                                  /\ Entry(t, i).status = 404 )
        => /\ Raised(t, "FileNotFoundError")
           /\ \A i \in LogIdx(t) : ~IsWrite(Entry(t, i))

(* C4: delete of a filename whose lookup answers 404 returns None and has *)
(* issued that one GET and nothing else.                                  *)
C4_DeleteMissingIsNoop ==
    \A t \in Threads :
        ( /\ Finished(t, "delete")
          /\ th[t].log # <<>>
          /\ Entry(t, 1).status = 404 )
        => /\ th[t].ret.kind = "None"
           /\ Len(th[t].log) = 1
           /\ Entry(t, 1).m = "GET"
           /\ Entry(t, 1).path = Target(t)

C4_Witness ==
    \E t \in Threads :
        /\ Finished(t, "delete")
        /\ th[t].log # <<>>
        /\ Entry(t, 1).status = 404
        /\ th[t].ret.kind = "None"
        /\ calls = MaxCalls

(* C5: upload never changes a file the remote already has.  When its    *)
(* create meets a conflict it sends a second create, for                  *)
(* {stem}-{current UTC second}{suffix}, and the URL an upload returns     *)
(* after a conflict is that of the renamed file, which the remote made.   *)
UploadAnswered(t) ==
    /\ th[t].op = "upload"
    /\ th[t].pc \in {"ens_put", "put1", "put2"}
    /\ th'[t] # th[t]

KeepsExisting == \A p \in DOMAIN tree : p \in DOMAIN tree' /\ tree'[p] = tree[p]

RenamesOnConflict(t) ==
    (th[t].pc = "put1" /\ subdir \o PathName(th[t].file) \in DOMAIN tree)
    => \/ /\ th'[t].pc = "put2"
          /\ th'[t].name = PathStem(PathName(th[t].file)) \o <<"-">>
                               \o StrfTime(clock) \o PathSuffix(PathName(th[t].file))
          /\ th'[t].name # PathName(th[t].file)
          /\ th'[t].log[Len(th'[t].log)] =
                 [m |-> "PUT", path |-> subdir \o th'[t].name, sha |-> NoSha,
                  status |-> Pending]
       \/ /\ th'[t].pc = "idle"
          /\ th'[t].ret.kind = "raise"

UploadResultOf(t) ==
    IF th[t].batch.kind = "none" THEN th'[t].ret
    ELSE th'[t].rets[Len(th'[t].rets)]

ReturnsRenamedUrl(t) ==
    (th[t].pc = "put2" /\ UploadResultOf(t).kind = "url")
    => /\ th[t].name # PathName(th[t].file)
       /\ UploadResultOf(t).val = CdnUrlOf(subdir, th[t].name)
       /\ UploadResultOf(t).val # CdnUrlOf(subdir, PathName(th[t].file))
       /\ subdir \o th[t].name \notin DOMAIN tree
       /\ subdir \o th[t].name \in DOMAIN tree'
       /\ tree'[subdir \o th[t].name] = LocalFS[th[t].file]

C5_UploadNeverOverwrites ==
    [][ \A t \in Threads :
            UploadAnswered(t) =>
                KeepsExisting /\ RenamesOnConflict(t) /\ ReturnsRenamedUrl(t) ]_vars

C5_Witness ==
    \E t \in Threads :
        /\ Finished(t, "upload")
        /\ th[t].ret.kind = "url"
        /\ \E i \in FilePuts(t) : Entry(t, i).status = 422
        /\ subdir \o PathName(th[t].file) \in DOMAIN tree
        /\ tree[subdir \o PathName(th[t].file)] = "o"
        /\ subdir \o th[t].name \in DOMAIN tree
        /\ tree[subdir \o th[t].name] = LocalFS[th[t].file]

(* C6: one upload sends at most two creates for the file, the second only *)
(* after a 422 to the first and under the renamed name; a second create   *)
(* that is refused ends the call with RuntimeError and without a URL.     *)
C6_RetriesOnce ==
    \A t \in Threads :
        th[t].op = "upload" =>
            LET puts == FilePuts(t)
                last == Entry(t, Len(th[t].log))
            IN  /\ Cardinality(puts) <= 2
                /\ Cardinality(puts) = 2 =>
                     /\ Entry(t, Len(th[t].log) - 1).status = 422
                     /\ Entry(t, Len(th[t].log) - 1).path
                            = subdir \o PathName(th[t].file)
                     /\ last.path = subdir \o th[t].name
                     /\ last.path # Entry(t, Len(th[t].log) - 1).path
                /\ (Cardinality(puts) = 2 /\ Refused(last)) =>
                     /\ th[t].pc = "idle"
                     /\ Raised(t, "RuntimeError")

C6_Witness ==
    \E t \in Threads :
        /\ Finished(t, "upload")
        /\ Cardinality(FilePuts(t)) = 2
        /\ Entry(t, Len(th[t].log)).status = 422
        /\ Raised(t, "RuntimeError")

(* C7: clear_dir sends DELETE only for listed entries of type "file"     *)
(* whose name is not kept, each at most once and with the listed sha;     *)
(* when it returns a count, it has deleted every such entry and the count *)
(* is their number.                                                       *)
Dels(t) == {i \in LogIdx(t) : Entry(t, i).m = "DELETE"}

Wanted(t) ==
    {th[t].listing[k] : k \in {j \in 1..Len(th[t].listing) :
                                 /\ th[t].listing[j].type = "file"
                                 /\ th[t].listing[j].name \notin th[t].keep}}

C7_ClearDeletesExactly ==
    \A t \in Threads :
        th[t].op = "clear_dir" =>
            /\ \A i \in Dels(t) :
                 \E e \in Wanted(t) : /\ e.path = Entry(t, i).path
                                      /\ e.sha = Entry(t, i).sha
            /\ \A i, j \in Dels(t) : i # j => Entry(t, i).path # Entry(t, j).path
            /\ (th[t].pc = "idle" /\ th[t].ret.kind = "count") =>
                 /\ \A e \in Wanted(t) :
                      \E i \in Dels(t) : /\ Entry(t, i).path = e.path
                                         /\ Ok(Entry(t, i).status)
                 /\ th[t].ret.val = Cardinality(Dels(t))
                 /\ th[t].ret.val = Cardinality(Wanted(t))

C7_Witness ==
    \E t \in Threads :
        /\ Finished(t, "clear_dir")
        /\ th[t].ret.kind = "count"
        /\ th[t].ret.val = 1
        /\ th[t].keep = {FileA}
        /\ \E k \in 1..Len(th[t].listing) : th[t].listing[k].type = "dir"
        /\ \E k \in 1..Len(th[t].listing) : th[t].listing[k].name = FileA
        /\ subdir \o FileA \in DOMAIN tree
        /\ subdir \o FileB \notin DOMAIN tree

(* C8: a delete or update whose sha is stale when its write reaches the   *)
(* remote changes nothing there and ends at once with an error            *)
(* (RuntimeError when the remote answered), without another request.      *)
StaleWrite(t) ==
    /\ th[t].pc \in {"del", "upd"}
    /\ \/ Target(t) \notin DOMAIN tree
       \/ Sha(tree[Target(t)]) # th[t].sha

C8_StaleWriteFails ==
    [][ \A t \in Threads :
            (StaleWrite(t) /\ th'[t] # th[t]) =>
                /\ tree' = tree
                /\ th'[t].pc = "idle"
                /\ th'[t].ret.kind = "raise"
                /\ Len(th'[t].log) = Len(th[t].log)
                /\ th'[t].log[Len(th[t].log)].status # 0 =>
                     /\ ~Ok(th'[t].log[Len(th[t].log)].status)
                     /\ th'[t].ret.val = "RuntimeError" ]_vars

C8_Witness ==
    \E t \in Threads :
        /\ Finished(t, "delete") \/ Finished(t, "update")
        /\ Raised(t, "RuntimeError")
        /\ th[t].log # <<>>
        /\ Entry(t, Len(th[t].log)).status = 409
        /\ Target(t) \in DOMAIN tree
        /\ Sha(tree[Target(t)]) # th[t].sha

(* C9: every refused request of upload, delete, update and clear_dir      *)
(* outside the ensure-directory pre-step ends the call with RuntimeError, *)
(* but for a 422 to upload's first create and a 404 to the lookup of      *)
(* delete or update.                                                      *)
Excepted(t, i) ==
    \/ /\ th[t].op = "upload"
       /\ Entry(t, i).status = 422
       /\ \A j \in FilePuts(t) : i <= j
    \/ /\ th[t].op \in {"delete", "update"}
       /\ Entry(t, i).m = "GET"
       /\ Entry(t, i).status = 404

C9_RefusalsRaiseRuntimeError ==
    \A t \in Threads :
        ( /\ th[t].pc = "idle"
          /\ th[t].op \in {"upload", "delete", "update", "clear_dir"}
          /\ \E i \in LogIdx(t) : /\ ~IsEnsure(t, i)
                                  /\ Refused(Entry(t, i))
                                  /\ ~Excepted(t, i) )
        => Raised(t, "RuntimeError")

(* C10: upload_many that returns has one entry per path of its argument,  *)
(* keyed by that path and holding the URL that path's upload returned.    *)
BatchDone(t) ==
    /\ th[t].batch.kind = "upload_many"
    /\ th[t].pc = "idle"
    /\ th[t].ret.kind = "map"

OneEntryPerPath(t) ==
    LET files == th[t].batch.files
    IN  /\ Cardinality(DOMAIN th[t].ret.val) = Len(files)
        /\ \A i \in 1..Len(files) :
             /\ files[i] \in DOMAIN th[t].ret.val
             /\ th[t].ret.val[files[i]] = th[t].rets[i].val

Distinct(files) == \A i, j \in 1..Len(files) : i # j => files[i] # files[j]

C10_OneEntryPerPath == \A t \in Threads : BatchDone(t) => OneEntryPerPath(t)

(* C10, amended: the same for a sequence of pairwise distinct paths.      *)
C10_OneEntryPerDistinctPath ==
    \A t \in Threads :
        (BatchDone(t) /\ Distinct(th[t].batch.files)) => OneEntryPerPath(t)

C10_Witness ==
    \E t \in Threads :
        /\ BatchDone(t)
        /\ Len(th[t].batch.files) = 2
        /\ Distinct(th[t].batch.files)
        /\ th[t].rets[1].val # th[t].rets[2].val
        /\ OneEntryPerPath(t)

(* C11: upload_many, delete_many and update_many take their elements in   *)
(* order and stop at the first that raises: its error becomes the error   *)
(* of the helper, no request is sent for a later element, and what the    *)
(* elements before it did to the remote stays (nothing is rolled back).   *)
InBatch(t) == th[t].batch.kind # "none" /\ th[t].batch.files # <<>>

UpdateName(t, k) ==
    IF th[t].batch.names[k] # <<>> THEN th[t].batch.names[k]
    ELSE PathName(th[t].batch.files[k])

(* the call at work is the call for element i *)
ItemIsAt(t) ==
    LET b == th[t].batch
    IN  CASE b.kind = "upload_many" ->
                 th[t].op = "upload" /\ th[t].file = b.files[b.i]
          [] b.kind = "delete_many" ->
                 th[t].op = "delete" /\ th[t].name = b.files[b.i]
          [] b.kind = "update_many" ->
                 /\ th[t].op = "update"
                 /\ th[t].file = b.files[b.i]
                 /\ th[t].name = UpdateName(t, b.i)

ProcessedInOrder(t) ==
    LET b == th[t].batch
    IN  /\ b.i \in 1..Len(b.files)
        /\ ItemIsAt(t)
        /\ Len(th[t].rets) = IF th[t].pc = "idle" THEN b.i ELSE b.i - 1
        /\ \A k \in 1..(Len(th[t].rets) - 1) : th[t].rets[k].kind # "raise"
        /\ (th[t].pc = "idle" /\ th[t].ret.kind # "raise") => b.i = Len(b.files)

BatchFailed(t) ==
    /\ InBatch(t)
    /\ th[t].pc = "idle"
    /\ th[t].rets # <<>>
    /\ th[t].rets[Len(th[t].rets)].kind = "raise"

ErrorPropagates(t) == th[t].ret = th[t].rets[Len(th[t].rets)]

(* what element k did is still there; a later element of update_many may  *)
(* have written the same target                                            *)
EffectRemains(t, k) ==
    LET b == th[t].batch
    IN  CASE b.kind = "upload_many" ->
                 \E c \in 0..MaxClock :
                   \E n \in {PathName(b.files[k]), Renamed(PathName(b.files[k]), c)} :
                     /\ th[t].rets[k].val = CdnUrlOf(subdir, n)
                     /\ subdir \o n \in DOMAIN tree
                     /\ tree[subdir \o n] = LocalFS[b.files[k]]
          [] b.kind = "delete_many" -> subdir \o b.files[k] \notin DOMAIN tree
          [] b.kind = "update_many" ->
                 \/ \E j \in (k + 1)..b.i : UpdateName(t, j) = UpdateName(t, k)
                 \/ /\ subdir \o UpdateName(t, k) \in DOMAIN tree
                    /\ tree[subdir \o UpdateName(t, k)] = LocalFS[b.files[k]]

FailsFast(t) ==
    BatchFailed(t) =>
        /\ ErrorPropagates(t)
        /\ \A k \in 1..(th[t].batch.i - 1) : EffectRemains(t, k)

(* a helper that failed sends nothing more: its thread moves again only   *)
(* to begin another call                                                  *)
SendsNothingMore(t) ==
    (BatchFailed(t) /\ th'[t] # th[t]) =>
        /\ calls' = calls + 1
        /\ tree' = tree
        /\ sema' = sema

C11_BatchesFailFast ==
    /\ [](\A t \in Threads : InBatch(t) => ProcessedInOrder(t) /\ FailsFast(t))
    /\ [][\A t \in Threads : SendsNothingMore(t)]_vars

C11_Witness ==
    \E t \in Threads :
        /\ BatchFailed(t)
        /\ th[t].batch.kind = "delete_many"
        /\ th[t].batch.i = 2
        /\ Raised(t, "RuntimeError")
        /\ th[t].rets[1].kind = "None"
        /\ subdir \o th[t].batch.files[1] \notin DOMAIN tree
        /\ subdir \o th[t].batch.files[2] \in DOMAIN tree

(* C12: whatever subdir string the constructor is given, the stored       *)
(* subdirectory is empty, or does not start with a separator and ends     *)
(* with exactly one; "i", "/i/" and "i/" are all stored as "i/", and the  *)
(* empty string as the empty string.                                      *)
WellFormedSubdir(d) ==
    \/ d = <<>>
    \/ /\ Head(d) # "/"
       /\ d[Len(d)] = "/"
       /\ Len(d) > 1 => d[Len(d) - 1] # "/"

C12_SubdirNormalised ==
    /\ WellFormedSubdir(subdir)
    /\ arg \in {<<"i">>, <<"/", "i", "/">>, <<"i", "/">>} => subdir = <<"i", "/">>
    /\ arg = <<>> => subdir = <<>>

(* C13: clear_dir fetches the listing once and deletes with the listed    *)
(* shas; when the remote refuses the DELETE of an entry, clear_dir ends   *)
(* there with RuntimeError: that DELETE is not sent again, no DELETE      *)
(* follows it, no count is returned, and the files deleted before it are  *)
(* still gone.                                                            *)
ListsOnce(t) ==
    /\ \A i \in LogIdx(t) : Entry(t, i).m = "GET" <=> i = 1
    /\ th[t].log # <<>> => Entry(t, 1).path = th[t].target_dir
    /\ \A i \in Dels(t) :
         \E k \in 1..Len(th[t].listing) :
             /\ th[t].listing[k].path = Entry(t, i).path
             /\ th[t].listing[k].sha = Entry(t, i).sha

StopsAtRefusal(t, i) ==
    /\ i = Len(th[t].log)
    /\ th[t].pc = "idle"
    /\ Raised(t, "RuntimeError")
    /\ \A j \in Dels(t) \ {i} :
         /\ Entry(t, j).path # Entry(t, i).path
         /\ Ok(Entry(t, j).status)

(* clear_dir puts nothing back: its writes are DELETEs, an accepted one   *)
(* removes its file and a refused one changes nothing                     *)
DeletesOnly(t) == \A i \in LogIdx(t) : IsWrite(Entry(t, i)) => Entry(t, i).m = "DELETE"

DeleteAnswered(t) ==
    (th[t].op = "clear_dir" /\ th[t].pc = "cdel" /\ th'[t] # th[t]) =>
        LET p == Strip(Head(th[t].items).path)
            status == th'[t].log[Len(th[t].log)].status
        IN  /\ Ok(status) => p \in DOMAIN tree /\ tree' = Without(tree, p)
            /\ Refused([status |-> status]) =>
                  /\ tree' = tree
                  /\ th'[t].pc = "idle"
                  /\ th'[t].deleted = th[t].deleted

C13_ClearStopsAtRefusal ==
    /\ [](\A t \in Threads :
             th[t].op = "clear_dir" =>
                 /\ ListsOnce(t)
                 /\ DeletesOnly(t)
                 /\ \A i \in Dels(t) : Refused(Entry(t, i)) => StopsAtRefusal(t, i))
    /\ [][\A t \in Threads : DeleteAnswered(t)]_vars

C13_Witness ==
    \E t \in Threads :
        /\ Finished(t, "clear_dir")
        /\ Cardinality(Dels(t)) = 2
        /\ Entry(t, Len(th[t].log)).status = 409
        /\ Raised(t, "RuntimeError")
        /\ Entry(t, Len(th[t].log)).path \in DOMAIN tree
        /\ Sha(tree[Entry(t, Len(th[t].log)).path]) # Entry(t, Len(th[t].log)).sha
        /\ Entry(t, 2).path \notin DOMAIN tree

(* C14: the ensure-directory pre-step of upload and update sends nothing  *)
(* when the subdirectory is empty and writes nothing when the directory   *)
(* lookup is answered with success; when the lookup is answered without   *)
(* success it sends one create (PUT without sha, empty content) of        *)
(* {subdir}.gitkeep.  It writes no other path and changes no file the     *)
(* remote already has.                                                    *)
KeepPuts(t) == {i \in LogIdx(t) : Entry(t, i).path = subdir \o GitKeep}

EnsureRequests(t) ==
    /\ subdir = <<>> =>
          /\ th[t].pc \notin {"ens_get", "ens_put"}
          /\ \A i \in LogIdx(t) : Entry(t, i).path \notin {subdir, subdir \o GitKeep}
    /\ th[t].pc \in {"ens_get", "ens_put"} =>
          \A i \in LogIdx(t) :
              IsWrite(Entry(t, i)) =>
                  /\ Entry(t, i).m = "PUT"
                  /\ Entry(t, i).path = subdir \o GitKeep
                  /\ Entry(t, i).sha = NoSha
    /\ (subdir # <<>> /\ th[t].log # <<>>) =>
          /\ Entry(t, 1).m = "GET" /\ Entry(t, 1).path = subdir
          /\ Ok(Entry(t, 1).status) => KeepPuts(t) = {}
          /\ Refused(Entry(t, 1)) =>
                /\ KeepPuts(t) = {2}
                /\ Entry(t, 2).m = "PUT" /\ Entry(t, 2).sha = NoSha

(* the answer to the .gitkeep create: the remote gained that one empty    *)
(* file, or nothing changed                                               *)
KeepCreated(t) ==
    (th[t].pc = "ens_put" /\ th'[t] # th[t]) =>
        /\ KeepsExisting
        /\ \A p \in DOMAIN tree' \ DOMAIN tree :
              /\ p = Strip(subdir \o GitKeep)
              /\ tree'[p] = ""

C14_EnsureDirWritesOnlyKeep ==
    /\ [](\A t \in Threads : th[t].op \in {"upload", "update"} => EnsureRequests(t))
    /\ [][\A t \in Threads : KeepCreated(t)]_vars

C14_Witness ==
    \E t \in Threads :
        /\ th[t].op \in {"upload", "update"}
        /\ th[t].pc = "idle"
        /\ Len(th[t].log) >= 2
        /\ Entry(t, 1).status = 404
        /\ Entry(t, 2) = [m |-> "PUT", path |-> subdir \o GitKeep, sha |-> NoSha,
                          status |-> 201]
        /\ Strip(subdir \o GitKeep) \in DOMAIN tree
        /\ tree[Strip(subdir \o GitKeep)] = ""

(* C15: when the .gitkeep create is answered without success, an upload   *)
(* of an existing local file still sends the create of the file, and the  *)
(* call ends as the answer to the file's last create says: the URL of the *)
(* created name after a success, RuntimeError after a refusal.            *)
KeepRefused(t) ==
    /\ th[t].op = "upload"
    /\ th[t].batch.kind = "none"
    /\ IsFile(th[t].file)
    /\ Len(th[t].log) >= 2
    /\ Entry(t, 2).path = subdir \o GitKeep
    /\ Refused(Entry(t, 2))

OutcomeOf(t, status) ==
    IF status = 0 THEN [kind |-> "raise", val |-> "TransportError"]
    ELSE IF ~Ok(status) THEN [kind |-> "raise", val |-> "RuntimeError"]
    ELSE [kind |-> "url", val |-> CdnUrlOf(subdir, th[t].name)]

C15_KeepFailureNotFatal ==
    \A t \in Threads :
        KeepRefused(t) =>
            /\ th[t].pc \in {"u_acq", "put1", "put2", "idle"}
            /\ th[t].pc # "u_acq" =>
                  /\ Len(th[t].log) >= 3
                  /\ Entry(t, 3) \in
                        [m : {"PUT"}, path : {subdir \o PathName(th[t].file)},
                         sha : {NoSha}, status : {Entry(t, 3).status}]
            /\ th[t].pc = "idle" =>
                  /\ FilePuts(t) = 3..Len(th[t].log)
                  /\ th[t].ret = OutcomeOf(t, Entry(t, Len(th[t].log)).status)

C15_Witness ==
    \E t \in Threads :
        /\ KeepRefused(t)
        /\ th[t].pc = "idle"
        /\ th[t].ret.kind = "url"
        /\ Strip(subdir \o GitKeep) \notin DOMAIN tree
        /\ Strip(subdir \o th[t].name) \in DOMAIN tree

(* C16: upload of a local path that is not a file ends with               *)
(* FileNotFoundError and has sent no write request, so the remote tree is *)
(* as it was before the call.                                             *)
C16_UploadMissingWritesNothing ==
    \A t \in Threads :
        ( /\ th[t].op = "upload"
          /\ th[t].batch.kind = "none"
          /\ ~IsFile(th[t].file) )
        => /\ \A i \in LogIdx(t) : ~IsWrite(Entry(t, i))
           /\ (th[t].pc = "idle" /\ \A i \in LogIdx(t) : Entry(t, i).status # 0)
                 => Raised(t, "FileNotFoundError")

(* C17: the gate never blocks for good.  Every call that has begun comes  *)
(* to its end (returns or raises) when requests are answered; a thread    *)
(* that takes a permit holds none, a thread that waits for one gets it    *)
(* when no thread holds a permit, and a lookup or listing can be sent     *)
(* whatever the number of permits left.                                   *)
Busy(t) == th[t].pc # "idle"

Waiting(t) == th[t].pc \in {"u_acq", "d_acq", "up_acq", "c_acq"}

Reading(t) == th[t].pc \in {"ens_get", "d_get", "up_get", "c_list"}

TakesOnePermit(t) ==
    (th'[t] # th[t] /\ sema' < sema) =>
        /\ Waiting(t)
        /\ ~HoldsPermit(t)
        /\ HoldsPermit(t)'
        /\ sema' = sema - 1

C17_NoDeadlockOnGate ==
    /\ \A t \in Threads : Busy(t) ~> ~Busy(t)
    /\ [](\A t \in Threads : ~(Waiting(t) /\ HoldsPermit(t)))
    /\ [](\A t \in Threads :
             (Waiting(t) /\ \A u \in Threads : ~HoldsPermit(u))
                 => ENABLED AcquireStep(t))
    /\ [](\A t \in Threads : Reading(t) => ENABLED ReadStep(t))
    /\ [][\A t \in Threads : TakesOnePermit(t)]_vars

C17_Witness ==
    \E t, u \in Threads :
        /\ t # u
        /\ sema = 0
        /\ HoldsPermit(u)
        /\ Waiting(t)
        /\ ~ENABLED AcquireStep(t)
        /\ ENABLED WriteStep(u)

====
